---- MODULE Spec2Model ----
(***************************************************************************)
(* Model of the conversation core of src/src/voice_ai.py: the session      *)
(* store VoiceAI.demo_conversations, the generation history                *)
(* VoiceAI.active_calls, the mock generator's counter, and the operations  *)
(* process_demo_conversation / generate_response / _generate_llm_response  *)
(* behind the /demo/chat endpoint, and make_outbound_call behind /call.    *)
(*                                                                         *)
(* A text is a sequence of symbols; a symbol is a string that is either    *)
(* the single blank " " or a word with no blank at either end.  The        *)
(* length of a text is the sum of the lengths of its symbols, so strip(),  *)
(* replace() and len() are computed as Python computes them.               *)
(***************************************************************************)
EXTENDS Integers, Sequences, FiniteSets, TLC

VARIABLES
    voice_ai,            \* TRUE iff the module-level VoiceAI() was built (l.412-416)
    demo_mode,           \* VoiceAI.demo_mode (l.132)
    llm,                 \* "loaded" | "none": VoiceAI.llm_model and tokenizer
    now,                 \* the wall clock, in half seconds
    demo_conversations,  \* VoiceAI.demo_conversations: id -> list of turns
    active_calls,        \* VoiceAI.active_calls: id -> {'history': [...]}
    response_index,      \* MockAudioProcessor.response_index
    http,                \* status of the last HTTP response (0: none)
    result,              \* value returned by the last process_demo_conversation
    request,             \* arguments of the last call and generator outcome
    llm_locals,          \* locals of the last _generate_llm_response call
    calls,               \* number of submissions started so far
    recorded,            \* log: id -> turns in the order they were appended
    submissions,         \* log: id -> user inputs of the calls returning id
    pc,                  \* threads: position in process_demo_conversation
    loc,                 \* threads: local variables
    plivo_client,        \* TRUE iff VoiceAI.plivo_client is a RestClient
    call_log,            \* log: one entry per /call request that reached l.582
    call_reply           \* body of the last /call response

vars == <<voice_ai, demo_mode, llm, now, demo_conversations, active_calls,
          response_index, http, result, request, llm_locals, calls,
          recorded, submissions, pc, loc, plivo_client, call_log, call_reply>>

-----------------------------------------------------------------------------
(* Bounds of the model *)

MaxCalls == 2
MaxNow == 1
MaxWarm == 3
MaxWarmCalls == 1
MaxMockWarm == 7

(* Program constants *)

WINDOW == 6
MIN_RESPONSE_LEN == 3

-----------------------------------------------------------------------------
(* Values *)

None == <<>>
Some(s) == <<s>>

NoResult == [conversation_id |-> "", user_message |-> None,
             ai_response |-> None, conversation_history |-> <<>>]

BLANK == " "
ASSISTANT_TAG == "Assistant:"

FALLBACK_DEGENERATE == <<"I understand. How else can I help you?">>
FALLBACK_ERROR == <<"I apologize for the technical difficulty. How can I assist you?">>

responses ==
    << <<"I understand you'd like assistance. How can I help you today?">>,
       <<"Thank you for that information. Let me help you with that.">>,
       <<"I see. Could you provide more details about your request?">>,
       <<"That's a great question. Let me explain that for you.">>,
       <<"I'll be happy to assist you with that. What else would you like to know?">>,
       <<"Is there anything specific you'd like help with?">>,
       <<"Thank you for calling. How else can I assist you today?">> >>

(* Inputs *)

UserInputs == { <<>>, <<"Hello">> }
\* absent, empty, a client's own id, and an id the service minted earlier
ConversationIds == { None, Some(""), Some("c1"), Some("demo_0") }
GenOutputs == { <<>>, <<"ok">>, <<BLANK, "ok", BLANK>>,
                <<ASSISTANT_TAG, BLANK, "Sure">> }
Outcomes == { [kind |-> "raise", raw |-> <<>>] }
            \cup { [kind |-> "return", raw |-> r] : r \in GenOutputs }
Threads == { "t1", "t2" }

-----------------------------------------------------------------------------
(* Python primitives *)

Min(a, b) == IF a < b THEN a ELSE b
Max(a, b) == IF a > b THEN a ELSE b

RECURSIVE PyLen(_)
PyLen(t) == IF t = <<>> THEN 0 ELSE Len(Head(t)) + PyLen(Tail(t))

RECURSIVE LStrip(_)
LStrip(t) == IF t # <<>> /\ Head(t) = BLANK THEN LStrip(Tail(t)) ELSE t

RECURSIVE RStrip(_)
RStrip(t) ==
    IF t # <<>> /\ t[Len(t)] = BLANK THEN RStrip(SubSeq(t, 1, Len(t) - 1)) ELSE t

strip(t) == RStrip(LStrip(t))

replace(t, old) == SelectSeq(t, LAMBDA s : s # old)

PySliceFrom(s, start) ==
    LET from == IF start < 0 THEN Max(Len(s) + start, 0) ELSE Min(start, Len(s))
    IN SubSeq(s, from + 1, Len(s))

\* a list that inserts at the front instead of appending
list_append_front(list, x) == <<x>> \o list

list_append(list, x) == Append(list, x)

\* the assignment replaces the dict by one holding the assigned key alone
Put_alone(dict, key, value) == [k \in {key} |-> value]

\* dict[key] = value
Put(dict, key, value) ==
    [k \in DOMAIN dict \cup {key} |-> IF k = key THEN value ELSE dict[k]]

Falsy(conversation_id) == conversation_id = None \/ conversation_id[1] = ""

\* int(time.time()): the whole seconds of a clock kept in half seconds
int_time(t) == t \div 2

\* the id built from the clock reading itself, not from its whole seconds
MintId_unrounded(t) == "demo_" \o ToString(t)

MintId(t) == "demo_" \o ToString(int_time(t))

Turn(t, speaker, message) ==
    [timestamp |-> t, speaker |-> speaker, message |-> message, type |-> "text"]

-----------------------------------------------------------------------------
(* MockAudioProcessor.generate_response, l.118-122 *)

\* the counter is read but never advanced
mock_generate_response_stuck(index) ==
    [response |-> responses[(index % Len(responses)) + 1],
     response_index |-> index]

mock_generate_response(index) ==
    [response |-> responses[(index % Len(responses)) + 1],
     response_index |-> index + 1]

(* VoiceAI._generate_llm_response, l.257-304 *)

CustomerLine(user_input) == <<"Customer: ">> \o user_input
AssistantLine(response) == <<"Assistant: ">> \o response

\* the slice [:6] in place of [-6:]
recent_history_oldest(history) == SubSeq(history, 1, Min(WINDOW, Len(history)))

recent_history(history) == PySliceFrom(history, 0 - WINDOW)

clean_response(raw) == replace(strip(raw), ASSISTANT_TAG)

\* the emptiness test alone, without the length test
is_degenerate_empty_only(response) == response = <<>>

is_degenerate(response) ==
    response = <<>> \/ PyLen(response) < MIN_RESPONSE_LEN

\* no check of the generated text at all
checked_response_unchecked(response) == response

\* the apology of the except branch used for degenerate output too
checked_response_apology(response) ==
    IF is_degenerate(response) THEN FALLBACK_ERROR ELSE response

checked_response(response) ==
    IF is_degenerate(response) THEN FALLBACK_DEGENERATE ELSE response

\* no except clause: the generator's exception leaves the function
except_catches_nothing(outcome) == FALSE

\* l.302: "except Exception" catches whatever the generator raises
except_catches(outcome) == outcome.kind = "raise"

\* the window is cut from the history before the customer line is appended
generate_llm_response_stale(calls_dict, user_input, conversation_id, outcome) ==
    LET ac0 == IF conversation_id \notin DOMAIN calls_dict
               THEN Put(calls_dict, conversation_id, [history |-> <<>>])
               ELSE calls_dict
        recent == recent_history(ac0[conversation_id].history)
        h1 == list_append(ac0[conversation_id].history, CustomerLine(user_input))
        response == checked_response(clean_response(outcome.raw))
        h2 == list_append(h1, AssistantLine(response))
        locals == [history |-> h1, recent_history |-> recent]
    IN IF outcome.kind = "raise"
       THEN [raised |-> ~except_catches(outcome),
             response |-> FALLBACK_ERROR,
             active_calls |-> [ac0 EXCEPT ![conversation_id].history = h1],
             locals |-> locals]
       ELSE [raised |-> FALSE,
             response |-> response,
             active_calls |-> [ac0 EXCEPT ![conversation_id].history = h2],
             locals |-> locals]

\* outcome.kind = "raise": tokenizer.encode / generate / decode raised at
\* l.280-291, after l.272-277 ran.
generate_llm_response(calls_dict, user_input, conversation_id, outcome) ==
    LET ac0 == IF conversation_id \notin DOMAIN calls_dict
               THEN Put(calls_dict, conversation_id, [history |-> <<>>])
               ELSE calls_dict
        h1 == list_append(ac0[conversation_id].history, CustomerLine(user_input))
        recent == recent_history(h1)
        response == checked_response(clean_response(outcome.raw))
        h2 == list_append(h1, AssistantLine(response))
        locals == [history |-> h1, recent_history |-> recent]
    IN IF outcome.kind = "raise"
       THEN [raised |-> ~except_catches(outcome),
             response |-> FALLBACK_ERROR,
             active_calls |-> [ac0 EXCEPT ![conversation_id].history = h1],
             locals |-> locals]
       ELSE [raised |-> FALSE,
             response |-> response,
             active_calls |-> [ac0 EXCEPT ![conversation_id].history = h2],
             locals |-> locals]

(* VoiceAI.generate_response, l.246-255 *)

uses_llm(mode, model) == IF mode THEN model = "loaded" ELSE TRUE

generate_response(st, user_input, conversation_id, outcome) ==
    IF uses_llm(st.demo_mode, st.llm)
    THEN LET g == generate_llm_response(st.active_calls, user_input,
                                        conversation_id, outcome)
         IN [raised |-> g.raised,
             response |-> g.response, active_calls |-> g.active_calls,
             response_index |-> st.response_index, llm_locals |-> g.locals]
    ELSE LET m == mock_generate_response(st.response_index)
         IN [raised |-> FALSE,
             response |-> m.response, active_calls |-> st.active_calls,
             response_index |-> m.response_index, llm_locals |-> st.llm_locals]

\* the generator outcomes possible in a configuration
PossibleOutcomes(mode, model) ==
    IF uses_llm(mode, model) THEN Outcomes
    ELSE { [kind |-> "mock", raw |-> <<>>] }

(* VoiceAI.process_demo_conversation, l.330-367, run without interruption. *)
(* st: the object's fields and the clock; dt: time spent generating.       *)
(* raised: an exception left generate_response at l.348, so l.351-367 did  *)
(* not run and nothing was returned.                                       *)

\* a new id is minted whatever the caller supplied
resolve_id_always_mint(conversation_id, t) == MintId(t)

resolve_id(conversation_id, t) ==
    IF Falsy(conversation_id) THEN MintId(t) ELSE conversation_id[1]

\* the session is (re)created empty without the membership test
ensure_session_reset(conversations, cid) == Put(conversations, cid, <<>>)

ensure_session(conversations, cid) ==
    IF cid \notin DOMAIN conversations THEN Put(conversations, cid, <<>>)
    ELSE conversations

\* only the newest WINDOW turns of the session are handed back
conversation_history_recent(conversations, cid) ==
    PySliceFrom(conversations[cid], 0 - WINDOW)

\* l.366: "conversation_history": self.demo_conversations[conversation_id]
conversation_history(conversations, cid) == conversations[cid]

process_demo_conversation(st, user_input, conversation_id, outcome, dt) ==
    LET cid == resolve_id(conversation_id, st.now)
        dc0 == ensure_session(st.demo_conversations, cid)
        user_message == Turn(st.now, "user", user_input)
        dc1 == [dc0 EXCEPT ![cid] = list_append(@, user_message)]
        g == generate_response(st, user_input, cid, outcome)
        ai_message == Turn(st.now + dt, "ai", g.response)
        dc2 == [dc1 EXCEPT ![cid] = list_append(@, ai_message)]
    IN [raised |-> g.raised,
        demo_mode |-> st.demo_mode,
        llm |-> st.llm,
        demo_conversations |-> IF g.raised THEN dc1 ELSE dc2,
        active_calls |-> g.active_calls,
        response_index |-> g.response_index,
        llm_locals |-> g.llm_locals,
        now |-> st.now + dt,
        result |-> IF g.raised THEN st.result
                   ELSE [conversation_id |-> cid,
                         user_message |-> user_message,
                         ai_response |-> ai_message,
                         conversation_history |->
                             conversation_history(dc2, cid)]]

-----------------------------------------------------------------------------
(* State *)

State ==
    [demo_mode |-> demo_mode, llm |-> llm, now |-> now,
     demo_conversations |-> demo_conversations,
     active_calls |-> active_calls, response_index |-> response_index,
     llm_locals |-> llm_locals, result |-> result, raised |-> FALSE]

EmptyDict == [k \in {} |-> <<>>]
NoLocals == [history |-> <<>>, recent_history |-> <<>>]
NoOutcome == [kind |-> "none", raw |-> <<>>]
NoRequest == [user_input |-> <<>>, conversation_id |-> None,
              outcome |-> NoOutcome]
NoReply == [success |-> FALSE, call_id |-> "", demo_mode |-> FALSE,
            message |-> ""]
IdleLocals == [user_input |-> <<>>, conversation_id |-> "",
               user_message |-> None, ai_response |-> <<>>,
               ai_message |-> None]

\* VoiceAI.__init__ (l.131-145) and the module-level construction (l.412-416)
Configs ==
    { [voice_ai |-> FALSE, demo_mode |-> FALSE, llm |-> "none"],
      [voice_ai |-> TRUE, demo_mode |-> TRUE, llm |-> "loaded"],
      [voice_ai |-> TRUE, demo_mode |-> TRUE, llm |-> "none"],
      [voice_ai |-> TRUE, demo_mode |-> FALSE, llm |-> "loaded"] }

\* l.192: None after _init_demo_mode; l.205: a RestClient after
\* _init_production_mode, which raises (l.198-203) rather than leave it unset
init_plivo_client(c) == c.voice_ai /\ ~c.demo_mode

Fresh(c) ==
    [demo_mode |-> c.demo_mode, llm |-> c.llm, now |-> 0,
     demo_conversations |-> EmptyDict, active_calls |-> EmptyDict,
     response_index |-> 0, llm_locals |-> NoLocals, result |-> NoResult,
     raised |-> FALSE]

InitFrom(c, st) ==
    /\ voice_ai = c.voice_ai
    /\ demo_mode = c.demo_mode
    /\ llm = c.llm
    /\ now = st.now
    /\ demo_conversations = st.demo_conversations
    /\ active_calls = st.active_calls
    /\ response_index = st.response_index
    /\ llm_locals = st.llm_locals
    /\ result = st.result
    /\ http = 0
    /\ request = NoRequest
    /\ calls = 0
    /\ recorded = st.demo_conversations
    /\ submissions = [id \in DOMAIN st.demo_conversations |->
                        [i \in 1..(Len(st.demo_conversations[id]) \div 2) |->
                            st.demo_conversations[id][2 * i - 1].message]]
    /\ pc = [t \in Threads |-> "idle"]
    /\ loc = [t \in Threads |-> IdleLocals]
    /\ plivo_client = init_plivo_client(c)
    /\ call_log = <<>>
    /\ call_reply = NoReply

Init == \E c \in Configs : InitFrom(c, Fresh(c))

LogAppend(log, key, items) ==
    Put(log, key, (IF key \in DOMAIN log THEN log[key] ELSE <<>>) \o items)

\* the whole of process_demo_conversation applied to the current state;
\* l.568-575: a result is answered with 200, an exception with 500
Run(user_input, conversation_id, outcome, dt) ==
    LET r == process_demo_conversation(State, user_input, conversation_id,
                                       outcome, dt)
        cid == resolve_id(conversation_id, now)
    IN /\ http' = IF r.raised THEN 500 ELSE 200
       /\ demo_conversations' = r.demo_conversations
       /\ active_calls' = r.active_calls
       /\ response_index' = r.response_index
       /\ llm_locals' = r.llm_locals
       /\ now' = r.now
       /\ result' = r.result
       /\ request' = [user_input |-> user_input,
                      conversation_id |-> conversation_id,
                      outcome |-> outcome]
       /\ recorded' = LogAppend(recorded, cid,
                                IF r.raised
                                THEN <<Turn(now, "user", user_input)>>
                                ELSE <<Turn(now, "user", user_input),
                                       r.result.ai_response>>)
       /\ submissions' = IF r.raised THEN submissions
                         ELSE LogAppend(submissions, cid, <<user_input>>)
       /\ calls' = calls + 1

(* POST /demo/chat, l.559-575 *)

Rejected(status) ==
    /\ \E user_input \in UserInputs, conversation_id \in ConversationIds :
          request' = [user_input |-> user_input,
                      conversation_id |-> conversation_id,
                      outcome |-> NoOutcome]
    /\ http' = status
    /\ calls' = calls + 1
    /\ UNCHANGED <<voice_ai, demo_mode, llm, plivo_client, call_log, call_reply, now, demo_conversations,
                   active_calls, response_index, result, llm_locals,
                   recorded, submissions, pc, loc>>

demo_chat_500(limit) ==
    /\ calls < limit
    /\ ~voice_ai
    /\ Rejected(500)

\* the demo-mode test of l.564 left out: the conversation runs anyway
demo_chat_400_ungated(limit) ==
    /\ calls < limit
    /\ voice_ai /\ ~demo_mode
    /\ \E user_input \in UserInputs, conversation_id \in ConversationIds,
          outcome \in PossibleOutcomes(demo_mode, llm), dt \in 0..1 :
          /\ now + dt <= MaxNow
          /\ Run(user_input, conversation_id, outcome, dt)
    /\ UNCHANGED <<voice_ai, demo_mode, llm, plivo_client, call_log, call_reply, pc, loc>>

demo_chat_400(limit) ==
    /\ calls < limit
    /\ voice_ai /\ ~demo_mode
    /\ Rejected(400)

demo_chat_run(limit) ==
    /\ calls < limit
    /\ voice_ai /\ demo_mode
    /\ \E user_input \in UserInputs, conversation_id \in ConversationIds,
          outcome \in PossibleOutcomes(demo_mode, llm), dt \in 0..1 :
          /\ now + dt <= MaxNow
          /\ Run(user_input, conversation_id, outcome, dt)
    /\ UNCHANGED <<voice_ai, demo_mode, llm, plivo_client, call_log, call_reply, pc, loc>>

(* the wall clock advances *)
Tick ==
    /\ now < MaxNow
    /\ now' = now + 1
    /\ UNCHANGED <<voice_ai, demo_mode, llm, plivo_client, call_log, call_reply, demo_conversations, active_calls,
                   response_index, http, result, request, llm_locals, calls,
                   recorded, submissions, pc, loc>>

Next ==
    \/ demo_chat_500(MaxCalls)
    \/ demo_chat_400(MaxCalls)
    \/ demo_chat_run(MaxCalls)
    \/ Tick

Spec == Init /\ [][Next]_vars

-----------------------------------------------------------------------------
(* The same service after earlier traffic: session "c1" has already served *)
(* up to MaxWarm submissions, each answered or failed by the generator.    *)

WarmOutcomes(c) ==
    IF uses_llm(c.demo_mode, c.llm)
    THEN { [kind |-> "raise", raw |-> <<>>],
           [kind |-> "return", raw |-> <<ASSISTANT_TAG, BLANK, "Sure">>] }
    ELSE { [kind |-> "mock", raw |-> <<>>] }

RECURSIVE Warm(_, _, _)
Warm(c, n, outcomes) ==
    IF n = 0 THEN Fresh(c)
    ELSE process_demo_conversation(Warm(c, n - 1, outcomes), <<"Hello">>,
                                   Some("c1"), outcomes[n], 0)

WarmInit ==
    \E c \in { k \in Configs : k.voice_ai /\ k.demo_mode } :
       \E n \in 0..MaxWarm :
          \E outcomes \in [1..n -> WarmOutcomes(c)] :
             InitFrom(c, Warm(c, n, outcomes))

WarmNext ==
    \/ demo_chat_run(MaxWarmCalls)
    \/ Tick

WarmSpec == WarmInit /\ [][WarmNext]_vars

-----------------------------------------------------------------------------
(* The mock generator after earlier traffic: up to MaxMockWarm submissions *)
(* were served before, alternately on session "c1" and without an id.      *)

MockConfig == [voice_ai |-> TRUE, demo_mode |-> TRUE, llm |-> "none"]

RECURSIVE MockWarm(_)
MockWarm(n) ==
    IF n = 0 THEN Fresh(MockConfig)
    ELSE process_demo_conversation(MockWarm(n - 1),
             IF n % 2 = 0 THEN <<>> ELSE <<"Hello">>,
             IF n % 2 = 0 THEN None ELSE Some("c1"),
             [kind |-> "mock", raw |-> <<>>], 0)

MockInit == \E n \in 0..MaxMockWarm : InitFrom(MockConfig, MockWarm(n))

MockNext ==
    \/ demo_chat_run(MaxWarmCalls)
    \/ Tick

MockSpec == MockInit /\ [][MockNext]_vars

-----------------------------------------------------------------------------
(* VoiceAI.make_outbound_call, l.369-402, and POST /call, l.577-592 *)

PhoneNumbers == { "+91-DEMO-NUMBER" }

\* what plivo_client.calls.create does at l.388-393
ProviderOutcomes ==
    { [kind |-> "raise", call_uuid |-> ""],
      [kind |-> "return", call_uuid |-> "uuid-1"] }

\* the demo branch of l.371-374 left out: every call goes to the provider
make_outbound_call_always_dials(self, phone_number, t, provider) ==
    IF ~self.plivo_client
    THEN [raised |-> TRUE, call_id |-> "", contacted |-> FALSE]
    ELSE IF provider.kind = "raise"
    THEN [raised |-> TRUE, call_id |-> "", contacted |-> TRUE]
    ELSE [raised |-> FALSE, call_id |-> provider.call_uuid, contacted |-> TRUE]

\* self: the fields demo_mode and plivo_client; t: the clock;
\* contacted: plivo_client.calls.create was invoked
make_outbound_call(self, phone_number, t, provider) ==
    IF self.demo_mode
    THEN [raised |-> FALSE,
          call_id |-> "demo_call_" \o ToString(int_time(t)),
          contacted |-> FALSE]
    ELSE IF ~self.plivo_client
    THEN [raised |-> TRUE, call_id |-> "", contacted |-> FALSE]
    ELSE IF provider.kind = "raise"
    THEN [raised |-> TRUE, call_id |-> "", contacted |-> TRUE]
    ELSE [raised |-> FALSE, call_id |-> provider.call_uuid, contacted |-> TRUE]

CallUnchanged ==
    UNCHANGED <<voice_ai, demo_mode, llm, now, demo_conversations,
                active_calls, response_index, result, llm_locals, recorded,
                submissions, pc, loc, plivo_client>>

\* l.579-580
make_call_500(limit) ==
    /\ calls < limit
    /\ ~voice_ai
    /\ http' = 500
    /\ call_reply' = NoReply
    /\ request' = NoRequest
    /\ calls' = calls + 1
    /\ UNCHANGED call_log
    /\ CallUnchanged

\* l.582-592
make_call(limit) ==
    /\ calls < limit
    /\ voice_ai
    /\ \E phone_number \in PhoneNumbers, provider \in ProviderOutcomes :
          LET r == make_outbound_call(
                       [demo_mode |-> demo_mode, plivo_client |-> plivo_client],
                       phone_number, now, provider)
          IN /\ http' = IF r.raised THEN 500 ELSE 200
             /\ call_reply' =
                   IF r.raised THEN NoReply
                   ELSE [success |-> TRUE, call_id |-> r.call_id,
                         demo_mode |-> demo_mode,
                         message |-> IF demo_mode THEN "Demo call simulated"
                                     ELSE "Call initiated"]
             /\ call_log' = Append(call_log,
                                   [phone_number |-> phone_number,
                                    contacted |-> r.contacted])
    /\ request' = NoRequest
    /\ calls' = calls + 1
    /\ CallUnchanged

CallNext ==
    \/ demo_chat_run(MaxCalls)
    \/ make_call_500(MaxCalls)
    \/ make_call(MaxCalls)
    \/ Tick

CallSpec == Init /\ [][CallNext]_vars

-----------------------------------------------------------------------------
(* process_demo_conversation called from several threads: the statements   *)
(* of l.332-367 of different calls interleave.                             *)

ThreadUnchanged ==
    UNCHANGED <<voice_ai, demo_mode, llm, plivo_client, call_log, call_reply, http, request>>

\* l.332-333
Begin(t) ==
    /\ pc[t] = "idle"
    /\ voice_ai /\ demo_mode
    /\ \E user_input \in UserInputs, conversation_id \in ConversationIds :
          loc' = [loc EXCEPT ![t] =
                    [IdleLocals EXCEPT
                       !.user_input = user_input,
                       !.conversation_id = resolve_id(conversation_id, now)]]
    /\ pc' = [pc EXCEPT ![t] = "check"]
    /\ calls' = calls + 1
    /\ UNCHANGED <<now, demo_conversations, active_calls, response_index,
                   result, llm_locals, recorded, submissions>>
    /\ ThreadUnchanged

\* l.335
Check(t) ==
    /\ pc[t] = "check"
    /\ pc' = [pc EXCEPT ![t] =
                IF loc[t].conversation_id \notin DOMAIN demo_conversations
                THEN "create" ELSE "append_user"]
    /\ UNCHANGED <<now, demo_conversations, active_calls, response_index,
                   result, llm_locals, calls, recorded, submissions, loc>>
    /\ ThreadUnchanged

\* l.336
Create(t) ==
    /\ pc[t] = "create"
    /\ demo_conversations' = Put(demo_conversations, loc[t].conversation_id, <<>>)
    /\ pc' = [pc EXCEPT ![t] = "append_user"]
    /\ UNCHANGED <<now, active_calls, response_index, result, llm_locals,
                   calls, recorded, submissions, loc>>
    /\ ThreadUnchanged

\* l.339-345
AppendUser(t) ==
    /\ pc[t] = "append_user"
    /\ LET user_message == Turn(now, "user", loc[t].user_input)
       IN /\ demo_conversations' =
                [demo_conversations EXCEPT ![loc[t].conversation_id] =
                    list_append(@, user_message)]
          /\ loc' = [loc EXCEPT ![t].user_message = user_message]
          /\ recorded' = LogAppend(recorded, loc[t].conversation_id,
                                   <<Turn(now, "user", loc[t].user_input)>>)
    /\ pc' = [pc EXCEPT ![t] = "generate"]
    /\ UNCHANGED <<now, active_calls, response_index, result, llm_locals,
                   calls, submissions>>
    /\ ThreadUnchanged

\* l.348
Generate(t) ==
    /\ pc[t] = "generate"
    /\ \E outcome \in PossibleOutcomes(demo_mode, llm) :
          LET g == generate_response(State, loc[t].user_input,
                                     loc[t].conversation_id, outcome)
          IN /\ active_calls' = g.active_calls
             /\ response_index' = g.response_index
             /\ llm_locals' = g.llm_locals
             /\ loc' = [loc EXCEPT ![t].ai_response = g.response]
             /\ pc' = [pc EXCEPT ![t] = IF g.raised THEN "done" ELSE "append_ai"]
    /\ UNCHANGED <<now, demo_conversations, result, calls, recorded,
                   submissions>>
    /\ ThreadUnchanged

\* l.351-357
AppendAi(t) ==
    /\ pc[t] = "append_ai"
    /\ LET ai_message == Turn(now, "ai", loc[t].ai_response)
       IN /\ demo_conversations' =
                [demo_conversations EXCEPT ![loc[t].conversation_id] =
                    list_append(@, ai_message)]
          /\ loc' = [loc EXCEPT ![t].ai_message = ai_message]
          /\ recorded' = LogAppend(recorded, loc[t].conversation_id,
                                   <<Turn(now, "ai", loc[t].ai_response)>>)
    /\ pc' = [pc EXCEPT ![t] = "return"]
    /\ UNCHANGED <<now, active_calls, response_index, result, llm_locals,
                   calls, submissions>>
    /\ ThreadUnchanged

\* l.362-367
Return(t) ==
    /\ pc[t] = "return"
    /\ result' = [conversation_id |-> loc[t].conversation_id,
                  user_message |-> loc[t].user_message,
                  ai_response |-> loc[t].ai_message,
                  conversation_history |->
                      conversation_history(demo_conversations,
                                           loc[t].conversation_id)]
    /\ submissions' = LogAppend(submissions, loc[t].conversation_id,
                                <<loc[t].user_input>>)
    /\ pc' = [pc EXCEPT ![t] = "done"]
    /\ UNCHANGED <<now, demo_conversations, active_calls, response_index,
                   llm_locals, calls, recorded, loc>>
    /\ ThreadUnchanged

ConcNext ==
    \/ \E t \in Threads : Begin(t)
    \/ \E t \in Threads : Check(t)
    \/ \E t \in Threads : Create(t)
    \/ \E t \in Threads : AppendUser(t)
    \/ \E t \in Threads : Generate(t)
    \/ \E t \in Threads : AppendAi(t)
    \/ \E t \in Threads : Return(t)
    \/ Tick

ConcSpec == Init /\ [][ConcNext]_vars

(* The same statements with one call at a time: a call begins only when no *)
(* other call is in progress, as on the event loop (l.559, no await).      *)

Idle(t) == pc[t] \in { "idle", "done" }

SeqBegin(t) ==
    /\ \A u \in Threads \ { t } : Idle(u)
    /\ Begin(t)

SeqNext ==
    \/ \E t \in Threads : SeqBegin(t)
    \/ \E t \in Threads : Check(t)
    \/ \E t \in Threads : Create(t)
    \/ \E t \in Threads : AppendUser(t)
    \/ \E t \in Threads : Generate(t)
    \/ \E t \in Threads : AppendAi(t)
    \/ \E t \in Threads : Return(t)
    \/ Tick

SeqSpec == Init /\ [][SeqNext]_vars

-----------------------------------------------------------------------------
(* Properties *)

IsPrefix(a, b) == Len(a) <= Len(b) /\ SubSeq(b, 1, Len(a)) = a

Answered == http = 200 /\ request.outcome.kind # "none"

\* C1: the transcript returned as conversation_history, and the transcript
\* kept for every session, are exactly the turns recorded on that session,
\* no more and no fewer, in the order they were recorded.
C1_TranscriptIsRecordedTurns ==
    /\ DOMAIN demo_conversations = DOMAIN recorded
    /\ \A id \in DOMAIN demo_conversations :
          demo_conversations[id] = recorded[id]
    /\ Answered =>
          result.conversation_history = recorded[result.conversation_id]

C1_Witness ==
    /\ Answered
    /\ Len(result.conversation_history) = 4
    /\ result.conversation_history[1].message
          # result.conversation_history[3].message

\* C2: the context window built for the prompt has exactly min(6, N)
\* entries of the N-entry history, is a suffix of it, and keeps its order.
C2_ContextWindow ==
    LET h == llm_locals.history
        w == llm_locals.recent_history
    IN /\ Len(w) = Min(WINDOW, Len(h))
       /\ \A i \in 1..Len(w) : w[i] = h[Len(h) - Len(w) + i]

C2_Witness ==
    /\ calls = 1
    /\ request.outcome.kind \in {"raise", "return"}
    /\ Len(llm_locals.history) > WINDOW
    /\ Len(llm_locals.recent_history) = WINDOW
    /\ llm_locals.history[1] # llm_locals.history[Len(llm_locals.history)]

\* C3 (as claimed): a submission without a session id returns a non-empty id
\* that no session used before the call; a submission with an id returned
\* earlier returns that id and appends to that session's transcript.
C3_FreshIdOrSameSession ==
    [][(http' = 200 /\ calls' = calls + 1) =>
          /\ Falsy(request'.conversation_id) =>
                /\ result'.conversation_id # ""
                /\ result'.conversation_id \notin DOMAIN demo_conversations
          /\ (~Falsy(request'.conversation_id)
                /\ request'.conversation_id[1] \in DOMAIN demo_conversations) =>
                /\ result'.conversation_id = request'.conversation_id[1]
                /\ IsPrefix(demo_conversations[result'.conversation_id],
                            demo_conversations'[result'.conversation_id])
                /\ Len(demo_conversations'[result'.conversation_id])
                      = Len(demo_conversations[result'.conversation_id]) + 2
      ]_vars

AllReturned == \A t \in Threads : pc[t] = "done"

\* C4 (as claimed): when calls on one session id interleave, no recorded
\* turn is lost: once all calls have finished, the length of the session's
\* transcript is the number of turns those calls recorded.
C4_NoLostTurn ==
    AllReturned =>
        \A id \in DOMAIN recorded :
            Len(demo_conversations[id]) = Len(recorded[id])

\* C5: when the generator returns an empty string or one shorter than 3
\* characters, the assistant turn recorded and returned carries the fixed
\* fallback text and is not empty.
C5_DegenerateGetsFallback ==
    (Answered /\ request.outcome.kind = "return"
       /\ PyLen(request.outcome.raw) < MIN_RESPONSE_LEN) =>
        LET tr == demo_conversations[result.conversation_id]
        IN /\ result.ai_response.message = FALLBACK_DEGENERATE
           /\ PyLen(result.ai_response.message) > 0
           /\ tr[Len(tr)] = result.ai_response

C5_Witness ==
    /\ Answered /\ request.outcome.kind = "return"
    /\ request.outcome.raw = <<"ok">>
    /\ result.ai_response.message = FALLBACK_DEGENERATE

\* C6: when the generator raises, the failure is not surfaced: the call
\* returns normally (200) with the user turn and an assistant turn carrying
\* non-empty fallback text, and both are the last turns of the transcript.
C6_FailureIsRecovered ==
    (calls > 0 /\ request.outcome.kind = "raise") =>
        /\ http = 200
        /\ LET tr == demo_conversations[result.conversation_id]
           IN /\ Len(tr) >= 2
              /\ result.conversation_history = tr
              /\ tr[Len(tr) - 1] = result.user_message
              /\ tr[Len(tr)] = result.ai_response
              /\ result.user_message.speaker = "user"
              /\ result.user_message.message = request.user_input
              /\ result.ai_response.speaker = "ai"
              /\ result.ai_response.message = FALLBACK_ERROR
              /\ PyLen(result.ai_response.message) > 0

C6_Witness ==
    /\ request.outcome.kind = "raise"
    /\ http = 200
    /\ result.ai_response.message = FALLBACK_ERROR
    /\ request.user_input = <<"Hello">>

DegenerateOutputs ==
    { r \in GenOutputs : PyLen(clean_response(r)) < MIN_RESPONSE_LEN }

AfterDegenerate(raw) ==
    process_demo_conversation(State, request'.user_input,
                              request'.conversation_id,
                              [kind |-> "return", raw |-> raw], now' - now)

C8_EmptyInputAccepted ==
    (voice_ai /\ demo_mode /\ calls > 0 /\ request.user_input = <<>>) =>
        /\ http = 200
        /\ LET tr == demo_conversations[result.conversation_id]
           IN /\ Len(tr) >= 2
              /\ tr[Len(tr) - 1] = result.user_message
              /\ tr[Len(tr) - 1].speaker = "user"
              /\ tr[Len(tr) - 1].message = <<>>
              /\ PyLen(tr[Len(tr) - 1].message) = 0
              /\ tr[Len(tr)] = result.ai_response
              /\ tr[Len(tr)].speaker = "ai"
              /\ PyLen(tr[Len(tr)].message) > 0

C8_Witness ==
    /\ http = 200
    /\ calls > 0
    /\ request.user_input = <<>>
    /\ result.user_message.message = <<>>
    /\ request.outcome.kind \in {"return", "mock"}

\* C9: after n submissions made one after another on a session, its
\* transcript has exactly 2n turns alternating user, assistant, starting
\* with a user turn, with the user texts in submission order.
C9_TwoTurnsPerSubmission ==
    /\ DOMAIN demo_conversations = DOMAIN submissions
    /\ \A id \in DOMAIN demo_conversations :
          LET tr == demo_conversations[id]
              sub == submissions[id]
          IN /\ Len(tr) = 2 * Len(sub)
             /\ \A i \in 1..Len(sub) :
                   /\ tr[2 * i - 1].speaker = "user"
                   /\ tr[2 * i - 1].message = sub[i]
                   /\ tr[2 * i].speaker = "ai"
    /\ Answered =>
          Len(result.conversation_history)
             = 2 * Len(submissions[result.conversation_id])

C9_Witness ==
    /\ Answered
    /\ calls = 2
    /\ request.conversation_id = Some("demo_0")
    /\ result.conversation_id = "demo_0"
    /\ Len(demo_conversations["demo_0"]) = 4
    /\ submissions["demo_0"] = << <<"Hello">>, <<>> >>

CreatesOrContinues(id) ==
    /\ http' = 200
    /\ result'.conversation_id = id
    /\ DOMAIN demo_conversations' = DOMAIN demo_conversations \cup {id}
    /\ IF id \in DOMAIN demo_conversations
       THEN /\ IsPrefix(demo_conversations[id], demo_conversations'[id])
            /\ Len(demo_conversations'[id]) = Len(demo_conversations[id]) + 2
       ELSE Len(demo_conversations'[id]) = 2

Submitted == calls' = calls + 1 /\ voice_ai /\ demo_mode

\* C10 (as claimed): for every client-supplied session id a submission
\* succeeds under exactly that id: an unknown id is created and returned,
\* an existing id is continued and never replaced or reset.
C10_ClientIdIsUsed ==
    [][(Submitted /\ request'.conversation_id # None) =>
          CreatesOrContinues(request'.conversation_id[1])]_vars

\* C10 (amended): the same for every NON-EMPTY client-supplied id; an
\* empty-string id is treated as absent and the minted id is used.
C10_NonEmptyClientIdIsUsed ==
    [][Submitted =>
          /\ ~Falsy(request'.conversation_id) =>
                CreatesOrContinues(request'.conversation_id[1])
          /\ request'.conversation_id = Some("") =>
                CreatesOrContinues(MintId(now))
      ]_vars

C10_Witness ==
    /\ Answered
    /\ request.conversation_id = Some("c1")
    /\ result.conversation_id = "c1"
    /\ Len(demo_conversations["c1"]) = 2

\* C11: sessions are never removed and transcripts are append-only: a
\* session in the store stays in the store, and its transcript before any
\* step is a prefix of its transcript after it.
C11_AppendOnly ==
    [][\A id \in DOMAIN demo_conversations :
          /\ id \in DOMAIN demo_conversations'
          /\ IsPrefix(demo_conversations[id], demo_conversations'[id])
      ]_vars

C11_Witness ==
    /\ Answered
    /\ calls = 2
    /\ \E id \in DOMAIN demo_conversations :
          /\ Len(demo_conversations[id]) = 4
          /\ demo_conversations[id][2].message # demo_conversations[id][4].message

\* C12: in every reachable state the timestamps of the turns of a session's
\* transcript are non-decreasing in transcript order.
C12_TimestampsNonDecreasing ==
    \A id \in DOMAIN demo_conversations :
       \A i, j \in 1..Len(demo_conversations[id]) :
          i < j => demo_conversations[id][i].timestamp
                      <= demo_conversations[id][j].timestamp

C12_Witness ==
    \E id \in DOMAIN demo_conversations :
       /\ Len(demo_conversations[id]) = 2
       /\ demo_conversations[id][1].timestamp < demo_conversations[id][2].timestamp

\* C13: the result of a submission holds the session id, the user turn and
\* the assistant turn recorded by this call, and the whole transcript of the
\* session with nothing cut off; the two turns are the last two entries of
\* the returned transcript, the user turn (speaker user, type text) first,
\* the assistant turn (speaker ai, type text) after it.
C13_ResultShape ==
    Answered =>
       LET cid == result.conversation_id
           h == result.conversation_history
           n == Len(h)
       IN /\ cid = resolve_id(request.conversation_id,
                              result.user_message.timestamp)
          /\ cid \in DOMAIN recorded
          /\ h = recorded[cid]
          /\ n >= 2
          /\ h[n - 1] = result.user_message
          /\ h[n] = result.ai_response
          /\ result.user_message.speaker = "user"
          /\ result.user_message.type = "text"
          /\ result.user_message.message = request.user_input
          /\ result.ai_response.speaker = "ai"
          /\ result.ai_response.type = "text"

C13_Witness ==
    /\ Answered
    /\ Len(result.conversation_history) = WINDOW + 2
    /\ result.conversation_history[WINDOW + 1] = result.user_message

Last(seq) == seq[Len(seq)]

\* C14: within one submission the user turn is recorded first; the generator
\* is called with the transcript ending in that user turn and records
\* nothing in the transcript itself; on the model-backed path the context
\* window it builds ends with the utterance just submitted; only after the
\* generator has answered is its reply appended as the assistant turn, right
\* after that user turn.
C14_StepOrder ==
    [][\A t \in Threads :
          LET cid == loc[t].conversation_id
          IN /\ (pc[t] = "generate" /\ pc'[t] # "generate") =>
                   /\ cid \in DOMAIN demo_conversations
                   /\ demo_conversations[cid] # <<>>
                   /\ Last(demo_conversations[cid]) = loc[t].user_message
                   /\ loc[t].user_message.message = loc[t].user_input
                   /\ demo_conversations' = demo_conversations
                   /\ uses_llm(demo_mode, llm) =>
                         /\ llm_locals'.recent_history # <<>>
                         /\ Last(llm_locals'.recent_history)
                               = CustomerLine(loc[t].user_input)
             /\ (pc[t] = "append_ai" /\ pc'[t] # "append_ai") =>
                   /\ Last(demo_conversations[cid]) = loc[t].user_message
                   /\ demo_conversations'[cid] =
                         demo_conversations[cid] \o <<loc'[t].ai_message>>
                   /\ loc'[t].ai_message.speaker = "ai"
                   /\ loc'[t].ai_message.message = loc[t].ai_response
      ]_vars

C14_Witness ==
    \E t \in Threads :
       /\ pc[t] = "return"
       /\ uses_llm(demo_mode, llm)
       /\ Len(demo_conversations[loc[t].conversation_id]) = 4
       /\ Len(llm_locals.recent_history) = 3
       /\ Last(llm_locals.recent_history) = CustomerLine(<<"Hello">>)

\* C15: a submission without a session id is served under "demo_" followed
\* by the whole seconds of the clock; when the previous submission also came
\* without an id and in the same clock second, this one gets the same id and
\* appends its two turns to the transcript the previous one left.
C15_SameSecondSameId ==
    [][(http' = 200 /\ calls' = calls + 1 /\ Falsy(request'.conversation_id)) =>
          /\ result'.conversation_id = "demo_" \o ToString(int_time(now))
          /\ (/\ Answered
              /\ Falsy(request.conversation_id)
              /\ int_time(result.user_message.timestamp) = int_time(now)) =>
                 /\ result'.conversation_id = result.conversation_id
                 /\ IsPrefix(demo_conversations[result.conversation_id],
                             demo_conversations'[result.conversation_id])
                 /\ Len(demo_conversations'[result.conversation_id])
                       = Len(demo_conversations[result.conversation_id]) + 2
      ]_vars

C15_Witness ==
    /\ Answered
    /\ calls = 2
    /\ Falsy(request.conversation_id)
    /\ result.conversation_id = "demo_0"
    /\ Len(result.conversation_history) = 4
    /\ result.conversation_history[1].timestamp = 0
    /\ result.conversation_history[3].timestamp = 1
    /\ submissions["demo_0"] = << <<"Hello">>, <<>> >>

StoreUnchanged ==
    UNCHANGED <<demo_conversations, active_calls, response_index, result>>

\* C16: every request to /demo/chat is answered 500 when the VoiceAI object
\* does not exist and 400 when it exists with demo mode off, and in both
\* cases no session is created and no turn recorded; in every other case the
\* request runs process_demo_conversation, answered 200 with its result, or
\* 500 when an exception left it.
C16_Gated ==
    [][calls' = calls + 1 =>
          /\ ~voice_ai => (http' = 500 /\ StoreUnchanged)
          /\ (voice_ai /\ ~demo_mode) => (http' = 400 /\ StoreUnchanged)
          /\ (voice_ai /\ demo_mode) =>
                LET r == process_demo_conversation(State, request'.user_input,
                             request'.conversation_id, request'.outcome,
                             now' - now)
                IN /\ http' = IF r.raised THEN 500 ELSE 200
                   /\ demo_conversations' = r.demo_conversations
                   /\ ~r.raised => result' = r.result
      ]_vars

C16_Witness ==
    /\ http = 400
    /\ calls = 2
    /\ voice_ai /\ ~demo_mode
    /\ request.conversation_id = Some("c1")
    /\ demo_conversations = EmptyDict
    /\ active_calls = EmptyDict
    /\ result = NoResult

\* C17: a /call request served by a demo-mode VoiceAI never reaches the
\* telephony provider, is answered 200 with success, demo_mode true and the
\* call id "demo_call_" followed by the whole seconds of the clock, and
\* leaves sessions, generation histories and the mock counter as they were;
\* a VoiceAI outside demo mode that holds no telephony client raises
\* instead of returning an id, whatever the provider would have done.
C17_DemoCallIsSimulated ==
    [][Len(call_log') = Len(call_log) + 1 =>
          /\ UNCHANGED <<demo_conversations, active_calls, response_index,
                         result>>
          /\ demo_mode =>
                /\ ~Last(call_log').contacted
                /\ \A i \in 1..Len(call_log') : ~call_log'[i].contacted
                /\ http' = 200
                /\ call_reply'.success
                /\ call_reply'.demo_mode
                /\ call_reply'.call_id = "demo_call_" \o ToString(int_time(now))
          /\ (~demo_mode /\ ~plivo_client) => http' = 500
          /\ \A phone_number \in PhoneNumbers, provider \in ProviderOutcomes :
                LET r == make_outbound_call(
                             [demo_mode |-> FALSE, plivo_client |-> FALSE],
                             phone_number, now, provider)
                IN r.raised /\ ~r.contacted
      ]_vars

C17_Witness ==
    /\ http = 200
    /\ call_reply.success /\ call_reply.demo_mode
    /\ call_reply.call_id = "demo_call_0"
    /\ now = 1
    /\ Len(call_log) = 1
    /\ \E id \in DOMAIN demo_conversations : Len(demo_conversations[id]) = 2

SameEntry(line, turn) ==
    \/ turn.speaker = "user" /\ line = CustomerLine(turn.message)
    \/ turn.speaker = "ai" /\ line = AssistantLine(turn.message)

\* C18 (as claimed): on the model-backed path, after every completed
\* submission each session's generation history in active_calls has as many
\* entries as its transcript in demo_conversations, and entry i of the
\* history is the line of turn i (Customer for user, Assistant for ai), also
\* when the generator failed during the submission.
C18_HistoryMatchesTranscript ==
    (voice_ai /\ demo_mode /\ uses_llm(demo_mode, llm)) =>
       \A id \in DOMAIN demo_conversations :
          /\ id \in DOMAIN active_calls
          /\ Len(active_calls[id].history) = Len(demo_conversations[id])
          /\ \A i \in 1..Len(demo_conversations[id]) :
                SameEntry(active_calls[id].history[i],
                          demo_conversations[id][i])

OthersKept(dict, dict2, own) ==
    /\ DOMAIN dict2 \subseteq DOMAIN dict \cup { own }
    /\ \A id \in DOMAIN dict \ { own } : id \in DOMAIN dict2 /\ dict2[id] = dict[id]

\* C19: a submission served under session id A leaves every other session
\* as it was: no other id is added to or removed from the transcript store
\* or the generation histories, every other transcript and history is
\* unchanged, and A's own transcript and history only grow at the end.
C19_OtherSessionsUntouched ==
    [][Submitted =>
          LET own == resolve_id(request'.conversation_id, now)
          IN /\ OthersKept(demo_conversations, demo_conversations', own)
             /\ OthersKept(active_calls, active_calls', own)
             /\ own \in DOMAIN demo_conversations =>
                   IsPrefix(demo_conversations[own], demo_conversations'[own])
             /\ own \in DOMAIN active_calls =>
                   IsPrefix(active_calls[own].history,
                            active_calls'[own].history)
      ]_vars

C19_Witness ==
    /\ Answered
    /\ calls = 2
    /\ result.conversation_id = "c1"
    /\ DOMAIN demo_conversations = { "c1", "demo_0" }
    /\ DOMAIN active_calls = { "c1", "demo_0" }
    /\ Len(demo_conversations["demo_0"]) = 2
    /\ Len(demo_conversations["c1"]) = 2

RECURSIVE TotalTurns(_, _)
TotalTurns(dict, ids) ==
    IF ids = {} THEN 0
    ELSE LET id == CHOOSE x \in ids : TRUE
         IN Len(dict[id]) + TotalTurns(dict, ids \ { id })

\* the number of submissions served since start-up, over all sessions
Served == TotalTurns(demo_conversations, DOMAIN demo_conversations) \div 2

\* C20: with the mock generator there are 7 canned replies and one counter
\* for all sessions: after k submissions served since start-up the counter
\* is k (each call advanced it by exactly one), and the reply to the k-th
\* submission is canned reply number (k-1) mod 7 whatever the text and the
\* session id were, hence never empty.
C20_MockRoundRobin ==
    /\ Len(responses) = 7
    /\ response_index = Served
    /\ Answered =>
          /\ result.ai_response.message = responses[((Served - 1) % 7) + 1]
          /\ result.ai_response.message # <<>>
          /\ PyLen(result.ai_response.message) > 0

C20_Witness ==
    /\ Answered
    /\ Served = 8
    /\ response_index = 8
    /\ result.conversation_id = "demo_0"
    /\ request.user_input = <<>>
    /\ result.ai_response.message = responses[1]

====
